---- MODULE Spec2Model ----
(***************************************************************************)
(* google-meet-rec-mover: RecordingScanner.scan and RecordingSet.move_to   *)
(* (src/google_meet_rec_mover/cli.py) with the converter collaborator      *)
(* (src/google_meet_rec_mover/gdoc_converter.py).                          *)
(*                                                                         *)
(* A file name is the sequence of its Unicode code points, so that the     *)
(* regular expressions, substring tests, suffix handling and string        *)
(* comparison of the code are computed character by character.  All files  *)
(* live in the one source directory (glob("*") is not recursive), hence a  *)
(* path is identified with its name; the date directory of the destination *)
(* is the set of names it holds.                                           *)
(***************************************************************************)
EXTENDS Integers, Sequences, FiniteSets, TLC

\* Largest number of entries the source directory holds.
MaxFiles == 3

(***************************************************************************)
(* Text                                                                    *)
(***************************************************************************)
\* Python's None for a path, a prefix or a date: the empty sequence, which is
\* falsy like None and is the name of no file.
None == << >>

Tilde == <<65374>>                                        \* "～" (U+FF5E)
Recording == <<82, 101, 99, 111, 114, 100, 105, 110, 103>> \* "Recording"
Chat == <<67, 104, 97, 116>>                              \* "Chat"
chat == <<99, 104, 97, 116>>                              \* "chat"
GeminiMemo == <<71, 101, 109, 105, 110, 105, 32, 12395, 12424, 12427, 12513, 12514>>
                                                          \* "Gemini によるメモ"
DotMp4 == <<46, 109, 112, 52>>                            \* ".mp4"
DotGdoc == <<46, 103, 100, 111, 99>>                      \* ".gdoc"
DotDocx == <<46, 100, 111, 99, 120>>                      \* ".docx"
DotTxt == <<46, 116, 120, 116>>                           \* ".txt"

\* needle in hay
Contains(hay, needle) ==
    \E i \in 0..(Len(hay) - Len(needle)) :
        SubSeq(hay, i + 1, i + Len(needle)) = needle

StartsAt(s, i, w) ==
    /\ i + Len(w) - 1 <= Len(s)
    /\ SubSeq(s, i, i + Len(w) - 1) = w

\* str.lower() on the characters the names use (ASCII letters have a case)
Lower(s) == [i \in 1..Len(s) |-> IF s[i] \in 65..90 THEN s[i] + 32 ELSE s[i]]

IsSpace(c) == c \in {9, 10, 11, 12, 13, 32}
IsDigit(c) == c \in 48..57

RECURSIVE LStrip(_)
LStrip(s) == IF s # << >> /\ IsSpace(Head(s)) THEN LStrip(Tail(s)) ELSE s

RECURSIVE RStrip(_)
RStrip(s) ==
    IF s # << >> /\ IsSpace(s[Len(s)]) THEN RStrip(SubSeq(s, 1, Len(s) - 1)) ELSE s

\* str.strip()
Strip(s) == RStrip(LStrip(s))

\* str < str: by code point, a proper prefix first
RECURSIVE StrLess(_, _)
StrLess(a, b) ==
    IF b = << >> THEN FALSE
    ELSE IF a = << >> THEN TRUE
    ELSE IF Head(a) # Head(b) THEN Head(a) < Head(b)
    ELSE StrLess(Tail(a), Tail(b))

\* PurePath.suffix: from the last dot, unless the dot starts or ends the name
Suffix(name) ==
    LET dots == {i \in 1..Len(name) : name[i] = 46}
    IN  IF dots = {} THEN << >>
        ELSE LET j == CHOOSE i \in dots : \A k \in dots : k <= i
             IN  IF 1 < j /\ j < Len(name) THEN SubSeq(name, j, Len(name)) ELSE << >>

\* PurePath.with_suffix(suffix)
WithSuffix(name, suffix) ==
    SubSeq(name, 1, Len(name) - Len(Suffix(name))) \o suffix

(***************************************************************************)
(* Identity and timestamp                                                  *)
(***************************************************************************)
\* RecordingScanner._extract_prefix: re.search(r'(.+?)(?:～Recording|～Chat)')
\* matches from the start of the name up to the first marker that leaves at
\* least one character before it; group 1, stripped.  An empty result is
\* falsy at the call site, like None.
ExtractPrefix(filename) ==
    LET marks == {i \in 2..Len(filename) :
                    \/ StartsAt(filename, i, Tilde \o Recording)
                    \/ StartsAt(filename, i, Tilde \o Chat)}
    IN  IF marks = {} THEN None
        ELSE LET i == CHOOSE m \in marks : \A k \in marks : m <= k
             IN  Strip(SubSeq(filename, 1, i - 1))

AllDigits(s, i, n) ==
    /\ i + n - 1 <= Len(s)
    /\ \A k \in i..(i + n - 1) : IsDigit(s[k])

\* int() of a run of decimal digits
RECURSIVE ToInt(_)
ToInt(ds) ==
    IF ds = << >> THEN 0
    ELSE ToInt(SubSeq(ds, 1, Len(ds) - 1)) * 10 + (ds[Len(ds)] - 48)

\* \s+ is greedy and is followed by a digit: it takes the whole run
RECURSIVE SkipSpaces(_, _)
SkipSpaces(s, p) == IF p <= Len(s) /\ IsSpace(s[p]) THEN SkipSpaces(s, p + 1) ELSE p

\* (\d{4})\s+(\d{2})\s+(\d{2})\s+(\d{2})[:/](\d{2}) matched at position i:
\* the five groups as integers, or None
MatchDateAt(s, i) ==
    LET p2 == SkipSpaces(s, i + 4)
        p3 == SkipSpaces(s, p2 + 2)
        p4 == SkipSpaces(s, p3 + 2)
        p5 == p4 + 3
    IN  IF /\ AllDigits(s, i, 4)
           /\ p2 > i + 4 /\ AllDigits(s, p2, 2)
           /\ p3 > p2 + 2 /\ AllDigits(s, p3, 2)
           /\ p4 > p3 + 2 /\ AllDigits(s, p4, 2)
           /\ p4 + 2 <= Len(s) /\ s[p4 + 2] \in {58, 47}
           /\ AllDigits(s, p5, 2)
        THEN << ToInt(SubSeq(s, i, i + 3)), ToInt(SubSeq(s, p2, p2 + 1)),
                ToInt(SubSeq(s, p3, p3 + 1)), ToInt(SubSeq(s, p4, p4 + 1)),
                ToInt(SubSeq(s, p5, p5 + 1)) >>
        ELSE None

IsLeap(y) == (y % 4 = 0) /\ ((y % 100 # 0) \/ (y % 400 = 0))

DaysInMonth(y, m) ==
    IF m = 2 THEN (IF IsLeap(y) THEN 29 ELSE 28)
    ELSE IF m \in {4, 6, 9, 11} THEN 30 ELSE 31

\* datetime(year, month, day, hour, minute) raises ValueError outside these
ValidDate(d) ==
    /\ d[1] \in 1..9999
    /\ d[2] \in 1..12
    /\ d[3] \in 1..DaysInMonth(d[1], d[2])
    /\ d[4] \in 0..23
    /\ d[5] \in 0..59

\* RecordingSet.extract_date_from_prefix: the leftmost match of the pattern
\* in the prefix; None when there is none or the fields are no calendar date
ExtractDate(prefix) ==
    LET starts == {i \in 1..Len(prefix) : MatchDateAt(prefix, i) # None}
    IN  IF starts = {} THEN None
        ELSE LET i == CHOOSE m \in starts : \A k \in starts : m <= k
                 d == MatchDateAt(prefix, i)
             IN  IF ValidDate(d) THEN d ELSE None

RECURSIVE DaysBeforeMonth(_, _)
DaysBeforeMonth(y, m) ==
    IF m = 1 THEN 0 ELSE DaysBeforeMonth(y, m - 1) + DaysInMonth(y, m - 1)

\* datetime.timestamp(): seconds since 1970-01-01 (local time taken as UTC)
Timestamp(d) ==
    LET y == d[1] - 1
        ordinal == y * 365 + (y \div 4) - (y \div 100) + (y \div 400)
                     + DaysBeforeMonth(d[1], d[2]) + d[3]
    IN  (ordinal - 719163) * 86400 + d[4] * 3600 + d[5] * 60

(***************************************************************************)
(* Recording sets                                                          *)
(***************************************************************************)
\* RecordingSet.__init__ as _group_files_into_sets calls it (no date given)
RecordingSet(prefix, video_path, transcript_path, chat_path) ==
    [prefix |-> prefix, video_path |-> video_path,
     transcript_path |-> transcript_path, chat_path |-> chat_path,
     date |-> ExtractDate(prefix)]

\* is_complete without its test: every bucket becomes a set
IsCompleteAlways(rs) == TRUE

\* RecordingSet.is_complete
IsComplete(rs) == rs.video_path # None

\* the grouping without its prefix test
MatchesPrefixAlways(prefix, name) == TRUE

\* the test "prefix in file_path.name" of _group_files_into_sets
MatchesPrefix(prefix, name) == Contains(name, prefix)

\* the if/elif chain of _group_files_into_sets: the role a matching file takes
Role(name) ==
    IF Lower(Suffix(name)) = DotMp4 \/ Contains(name, Recording) THEN "video"
    ELSE IF Lower(Suffix(name)) = DotGdoc \/ Contains(name, GeminiMemo)
         THEN "transcript"
    ELSE IF \/ (Lower(Suffix(name)) = DotTxt /\ Contains(Lower(name), chat))
            \/ Contains(name, Chat)
         THEN "chat"
    ELSE "none"

\* the inner loop over the listing: each matching file overwrites the role's
\* variable, so the last one in listing order stays
RECURSIVE AssignRoles(_, _, _)
AssignRoles(prefix, files, acc) ==
    IF files = << >> THEN acc
    ELSE LET f == Head(files)
             r == IF MatchesPrefix(prefix, f) THEN Role(f) ELSE "none"
             next == IF r = "video" THEN [acc EXCEPT !.video_path = f]
                     ELSE IF r = "transcript" THEN [acc EXCEPT !.transcript_path = f]
                     ELSE IF r = "chat" THEN [acc EXCEPT !.chat_path = f]
                     ELSE acc
         IN  AssignRoles(prefix, Tail(files), next)

\* the prefixes collected by the first loop of _group_files_into_sets
Prefixes(files) == {ExtractPrefix(files[i]) : i \in 1..Len(files)} \ {None}

\* one recording set per prefix, in the order the prefix set is iterated
BuildSets(files, order) ==
    [k \in 1..Len(order) |->
        LET a == AssignRoles(order[k], files,
                    [video_path |-> None, transcript_path |-> None, chat_path |-> None])
        IN  RecordingSet(order[k], a.video_path, a.transcript_path, a.chat_path)]

\* RecordingScanner._group_files_into_sets.  `order` is the iteration order of
\* the Python set `prefixes`, which the hash seed decides.
GroupFilesIntoSets(files, order) == SelectSeq(BuildSets(files, order), IsComplete)

\* the sort key without its second component
SortKeyLessNoTieBreak(a, b) ==
    IF a.date = None THEN FALSE
    ELSE IF b.date = None THEN TRUE
    ELSE -Timestamp(a.date) < -Timestamp(b.date)

\* the sort key (-(timestamp or -inf), prefix), compared as Python compares
\* tuples: -(-inf) = +inf is above every finite first component
SortKeyLess(a, b) ==
    LET firstLess == IF a.date = None THEN FALSE
                     ELSE IF b.date = None THEN TRUE
                     ELSE -Timestamp(a.date) < -Timestamp(b.date)
        firstEq == IF a.date = None \/ b.date = None THEN a.date = b.date
                   ELSE Timestamp(a.date) = Timestamp(b.date)
    IN  firstLess \/ (firstEq /\ StrLess(a.prefix, b.prefix))

\* list.sort is stable: x goes before the first element whose key is greater
RECURSIVE InsertSorted(_, _)
InsertSorted(sorted, x) ==
    IF sorted = << >> THEN <<x>>
    ELSE IF SortKeyLess(x, Head(sorted)) THEN <<x>> \o sorted
    ELSE <<Head(sorted)>> \o InsertSorted(Tail(sorted), x)

RECURSIVE SortSets(_)
SortSets(sets) ==
    IF sets = << >> THEN << >>
    ELSE InsertSorted(SortSets(SubSeq(sets, 1, Len(sets) - 1)), sets[Len(sets)])

\* RecordingScanner.scan on a directory listing
Scan(files, order) == SortSets(GroupFilesIntoSets(files, order))

(***************************************************************************)
(* State                                                                   *)
(***************************************************************************)
VARIABLES
    listing,            \* list(source_dir.glob("*")): the entries, in the order the OS lists them
    fs,                 \* the names that exist in the source directory
    date_dir,           \* the names that exist in destination/<date>
    recording_sets,     \* what RecordingScanner.scan returned
    self,               \* the RecordingSet move_to runs on (main's selected_set)
    pc,                 \* where main / move_to stands
    success,            \* move_to's local `success`, the value it returns
    original_gdoc_path, \* move_to's local of that name
    files_to_move,      \* move_to's list of (role, path)
    idx,                \* position of the move loop in files_to_move
    outcome             \* what each file-system or converter call did

vars == <<listing, fs, date_dir, recording_sets, self, pc, success,
          original_gdoc_path, files_to_move, idx, outcome>>

\* the names a source directory is populated from
NameA == <<65>>                                                  \* "A"
Date1 == <<50,48,50,52,32,48,53,32,48,49,32,49,48,58,51,48>>     \* "2024 05 01 10:30"
Date2 == <<50,48,50,52,32,48,53,32,48,50,32,48,57,58,48,48>>     \* "2024 05 02 09:00"
DateBad == <<50,48,50,52,32,49,51,32,48,49,32,49,48,58,51,48>>   \* "2024 13 01 10:30"
FileARecordingMp4 == NameA \o Tilde \o Recording \o DotMp4       \* "A～Recording.mp4"
FileARecording == NameA \o Tilde \o Recording                    \* "A～Recording"
FileAChatTxt == NameA \o <<32>> \o Tilde \o Chat \o DotTxt       \* "A ～Chat.txt"
FileAMemoGdoc == NameA \o <<32>> \o GeminiMemo \o DotGdoc        \* "A Gemini によるメモ.gdoc"
FileAMemoDocx == NameA \o <<32>> \o GeminiMemo \o DotDocx        \* "A Gemini によるメモ.docx"
FileD1Recording == Date1 \o Tilde \o Recording \o DotMp4         \* "2024 05 01 10:30～Recording.mp4"
FileBD1Recording == <<66, 32>> \o Date1 \o Tilde \o Recording    \* "B 2024 05 01 10:30～Recording"
FileD2Recording == Date2 \o Tilde \o Recording \o DotMp4         \* "2024 05 02 09:00～Recording.mp4"
FileBadRecording == DateBad \o Tilde \o Recording \o DotMp4      \* "2024 13 01 10:30～Recording.mp4"
FileReadme == <<120>> \o DotTxt                                  \* "x.txt"

FileNames ==
    {FileARecordingMp4, FileARecording, FileAChatTxt, FileAMemoGdoc, FileAMemoDocx,
     FileD1Recording, FileBD1Recording, FileD2Recording, FileBadRecording, FileReadme}

\* the sequences that list every element of S once
Orderings(S) ==
    {f \in [1..Cardinality(S) -> S] : \A i, j \in 1..Cardinality(S) : f[i] = f[j] => i = j}

\* the directory listings of at most MaxFiles distinct names
Listings ==
    {f \in UNION {[1..n -> FileNames] : n \in 0..MaxFiles} :
        \A i, j \in 1..Len(f) : f[i] = f[j] => i = j}

NoSet ==
    [prefix |-> None, video_path |-> None, transcript_path |-> None,
     chat_path |-> None, date |-> None]

NoOutcome == [rename |-> "none", convert |-> "none", unlink |-> "none", moves |-> << >>]

Init ==
    /\ listing \in Listings
    /\ fs = {listing[i] : i \in 1..Len(listing)}
    /\ date_dir = {}
    /\ recording_sets = << >>
    /\ self = NoSet
    /\ pc = "scan"
    /\ success = FALSE
    /\ original_gdoc_path = None
    /\ files_to_move = << >>
    /\ idx = 0
    /\ outcome = NoOutcome

(***************************************************************************)
(* main: scan, then the choice of a set                                    *)
(***************************************************************************)
\* scanner.scan().  A missing source directory returns [] like an empty one.
ScanDir ==
    /\ pc = "scan"
    /\ \E order \in Orderings(Prefixes(listing)) :
           recording_sets' = Scan(listing, order)
    /\ pc' = "select"
    /\ UNCHANGED <<listing, fs, date_dir, self, success, original_gdoc_path,
                   files_to_move, idx, outcome>>

\* main returns: no set was found, or the user entered 0
Quit ==
    /\ pc = "select"
    /\ pc' = "exit"
    /\ UNCHANGED <<listing, fs, date_dir, recording_sets, self, success,
                   original_gdoc_path, files_to_move, idx, outcome>>

\* the user picks set number `choice`; main calls selected_set.move_to(dest_path)
Select ==
    /\ pc = "select"
    /\ \E choice \in 1..Len(recording_sets) : self' = recording_sets[choice]
    /\ pc' = "mkdir"
    /\ UNCHANGED <<listing, fs, date_dir, recording_sets, success,
                   original_gdoc_path, files_to_move, idx, outcome>>

(***************************************************************************)
(* RecordingSet.move_to                                                    *)
(***************************************************************************)
\* destination.mkdir / date_dir.mkdir are outside every try: an OSError leaves
\* move_to without a return value.  Then `success = True`.
MakeDirs ==
    /\ pc = "mkdir"
    /\ \E made \in BOOLEAN :
           IF made THEN pc' = "ensure" /\ success' = TRUE
                   ELSE pc' = "raised" /\ success' = success
    /\ UNCHANGED <<listing, fs, date_dir, recording_sets, self,
                   original_gdoc_path, files_to_move, idx, outcome>>

\* the reference assigned before the rename is tried
VideoAfterRenameAlways(old_path, new_path, renamed) == new_path

\* ensure_video_extension: self.video_path after the try/except around rename
VideoAfterRename(old_path, new_path, renamed) ==
    IF renamed THEN new_path ELSE old_path

\* os.rename(old, new) on the directory: new replaces whatever had that name
RenameFile(dir, old, new) == (dir \ {old}) \cup {new}

\* `if self.video_path: self.ensure_video_extension()`
EnsureVideoExtension ==
    /\ pc = "ensure"
    /\ IF self.video_path = None \/ Lower(Suffix(self.video_path)) = DotMp4
       THEN UNCHANGED <<self, fs, outcome>>
       ELSE LET new_path == WithSuffix(self.video_path, DotMp4)
            IN  \E renamed \in {r \in BOOLEAN : r => self.video_path \in fs} :
                    /\ fs' = IF renamed THEN RenameFile(fs, self.video_path, new_path)
                             ELSE fs
                    /\ self' = [self EXCEPT !.video_path =
                                   VideoAfterRename(self.video_path, new_path, renamed)]
                    /\ outcome' = [outcome EXCEPT !.rename =
                                      IF renamed THEN "ok" ELSE "fail"]
    /\ pc' = "convert"
    /\ UNCHANGED <<listing, date_dir, recording_sets, success,
                   original_gdoc_path, files_to_move, idx>>

\* What GdocConverter().convert_to_docx(gdoc) can do:
\*   "ok"      the export is written to the output path, which is returned;
\*   "partial" io.FileIO created the output file, then the download raised:
\*             None is returned and the file stays;
\*   "none"    nothing is written: the constructor's authentication raised,
\*             extract_file_id found no doc_id, or the export request raised.
\* The first two need the .gdoc file, whose doc_id is read first.
ConverterResults(dir, gdoc_path) ==
    {"none"} \cup (IF gdoc_path \in dir THEN {"ok", "partial"} ELSE {})

\* convert_to_docx: output_path = gdoc_path.with_suffix('.docx')
OutputPath(gdoc_path) == WithSuffix(gdoc_path, DotDocx)

\* the reference never updated
TranscriptAfterConvertKeep(old_path, docx_path, exists) == old_path

\* convert_transcript_to_docx: self.transcript_path after the call; docx_path
\* is what the converter returned, exists whether that file is there
TranscriptAfterConvert(old_path, docx_path, exists) ==
    IF docx_path # None /\ exists THEN docx_path ELSE old_path

\* convert_transcript_to_docx's return value
ConvertReturn(docx_path, exists) ==
    IF docx_path # None /\ exists THEN docx_path ELSE None

\* a failed conversion that is only logged
SuccessAfterConvertKeep(succ, docx_path) == succ

\* `if not docx_path: success = False`
SuccessAfterConvert(succ, docx_path) == IF docx_path = None THEN FALSE ELSE succ

\* the list of (role, path) the move loop runs over
FilesToMove(rs) ==
    (IF rs.video_path # None THEN << <<"video", rs.video_path>> >> ELSE << >>)
    \o (IF rs.transcript_path # None THEN << <<"transcript", rs.transcript_path>> >>
        ELSE << >>)
    \o (IF rs.chat_path # None THEN << <<"chat", rs.chat_path>> >> ELSE << >>)

\* the conversion block of move_to, then the building of files_to_move
ConvertTranscript ==
    /\ pc = "convert"
    /\ IF self.transcript_path # None /\ Lower(Suffix(self.transcript_path)) = DotGdoc
       THEN \E r \in ConverterResults(fs, self.transcript_path) :
                LET out == OutputPath(self.transcript_path)
                    returned == IF r = "ok" THEN out ELSE None
                    dir == IF r \in {"ok", "partial"} THEN fs \cup {out} ELSE fs
                    docx_path == ConvertReturn(returned, out \in dir)
                IN  /\ original_gdoc_path' = self.transcript_path
                    /\ fs' = dir
                    /\ self' = [self EXCEPT !.transcript_path =
                                   TranscriptAfterConvert(self.transcript_path,
                                                          returned, out \in dir)]
                    /\ success' = SuccessAfterConvert(success, docx_path)
                    /\ outcome' = [outcome EXCEPT !.convert =
                                      IF r = "ok" THEN "ok" ELSE "fail"]
       ELSE UNCHANGED <<original_gdoc_path, fs, self, success, outcome>>
    /\ files_to_move' = FilesToMove(self')
    /\ idx' = 1
    /\ pc' = IF files_to_move' = << >> THEN "cleanup" ELSE "move"
    /\ UNCHANGED <<listing, date_dir, recording_sets>>

\* What shutil.move(source, date_dir / source.name) can do:
\*   "ok"     the file is at the target and no longer at the source;
\*   "copied" os.rename failed, the copy was made and removing the source
\*            raised: the file is at both places, the call raised;
\*   "fail"   the call raised and nothing changed.
MoveResults(dir, source_path) ==
    {"fail"} \cup (IF source_path \in dir THEN {"ok", "copied"} ELSE {})

\* a failed move that is only logged
SuccessAfterMoveKeep(succ, moved) == succ

\* the except branch of the move loop: `success = False`
SuccessAfterMove(succ, moved) == IF moved THEN succ ELSE FALSE

\* a loop that a failed move ends
NextIndexStopOnFailure(i, moved, n) == IF moved THEN i + 1 ELSE n + 1

\* the loop goes on to the next entry whether the move raised or not
NextIndex(i, moved, n) == i + 1

\* one iteration of `for file_type, source_path in files_to_move`
MoveFile ==
    /\ pc = "move"
    /\ idx <= Len(files_to_move)
    /\ LET file_type == files_to_move[idx][1]
           source_path == files_to_move[idx][2]
       IN  \E r \in MoveResults(fs, source_path) :
               /\ fs' = IF r = "ok" THEN fs \ {source_path} ELSE fs
               /\ date_dir' = IF r \in {"ok", "copied"} THEN date_dir \cup {source_path}
                              ELSE date_dir
               /\ success' = SuccessAfterMove(success, r = "ok")
               /\ outcome' = [outcome EXCEPT !.moves =
                                 Append(@, [role |-> file_type, path |-> source_path,
                                            ok |-> (r = "ok")])]
               /\ idx' = NextIndex(idx, r = "ok", Len(files_to_move))
    /\ pc' = IF idx' > Len(files_to_move) THEN "cleanup" ELSE "move"
    /\ UNCHANGED <<listing, recording_sets, self, original_gdoc_path, files_to_move>>

\* the deletion not conditioned on success
ShouldCleanupAlways(gdoc_path, succ) == gdoc_path # None

\* `if original_gdoc_path and success`
ShouldCleanup(gdoc_path, succ) == gdoc_path # None /\ succ

\* the deletion of the original .gdoc, then `return success`
Cleanup ==
    /\ pc = "cleanup"
    /\ IF ShouldCleanup(original_gdoc_path, success)
       THEN \E removed \in {r \in BOOLEAN : r => original_gdoc_path \in fs} :
                /\ fs' = IF removed THEN fs \ {original_gdoc_path} ELSE fs
                /\ outcome' = [outcome EXCEPT !.unlink =
                                  IF removed THEN "ok" ELSE "fail"]
       ELSE UNCHANGED <<fs, outcome>>
    /\ pc' = "done"
    /\ UNCHANGED <<listing, date_dir, recording_sets, self, success,
                   original_gdoc_path, files_to_move, idx>>

Next ==
    \/ ScanDir
    \/ Quit
    \/ Select
    \/ MakeDirs
    \/ EnsureVideoExtension
    \/ ConvertTranscript
    \/ MoveFile
    \/ Cleanup

Spec == Init /\ [][Next]_vars

(***************************************************************************)
(* Properties                                                              *)
(***************************************************************************)
Returned == pc = "done"                      \* move_to has returned `success`
Moves == outcome.moves
MoveFailed(role) == \E i \in DOMAIN Moves : Moves[i].role = role /\ ~Moves[i].ok
MoveOk(role) == \E i \in DOMAIN Moves : Moves[i].role = role /\ Moves[i].ok
AllMovesOk == \A i \in DOMAIN Moves : Moves[i].ok
\* scan has just returned; no later step assigns recording_sets
Scanned == pc = "select"
InMoveTo == pc \in {"ensure", "convert", "move", "cleanup", "done"}

\* the selected set as scan returned it (prefixes are unique in the list)
Selected ==
    CHOOSE r \in {recording_sets[i] : i \in DOMAIN recording_sets} : r.prefix = self.prefix

Members(rs) == {rs.video_path, rs.transcript_path, rs.chat_path} \ {None}

\* every role the set holds had its move attempted, with the set's path
AllPresentAttempted ==
    /\ self.video_path # None =>
           \E i \in DOMAIN Moves : Moves[i].role = "video" /\ Moves[i].path = self.video_path
    /\ self.transcript_path # None =>
           \E i \in DOMAIN Moves :
               Moves[i].role = "transcript" /\ Moves[i].path = self.transcript_path
    /\ self.chat_path # None =>
           \E i \in DOMAIN Moves : Moves[i].role = "chat" /\ Moves[i].path = self.chat_path

\* C1: move_to returns success only if every move it attempted succeeded and,
\* when the transcript was a .gdoc (so the conversion ran), the conversion
\* succeeded.
C1_SuccessOnlyIfEveryStepSucceeded ==
    (Returned /\ success) =>
        /\ AllPresentAttempted
        /\ AllMovesOk
        /\ \A i \in DOMAIN Moves : Moves[i].path \in date_dir
        /\ original_gdoc_path # None => outcome.convert = "ok"

C1_Witness ==
    /\ Returned /\ success
    /\ original_gdoc_path # None
    /\ Len(Moves) = 3

\* C2: the original .gdoc is deleted (gone from the source directory without
\* having been moved) only if move_to returns success, and a failed deletion
\* leaves the returned result success.
C2_GdocDeletedOnlyOnSuccess ==
    /\ (/\ original_gdoc_path # None
        /\ original_gdoc_path \notin fs
        /\ ~\E i \in DOMAIN Moves : Moves[i].path = original_gdoc_path /\ Moves[i].ok)
       => (Returned /\ success /\ outcome.convert = "ok" /\ AllMovesOk)
    /\ outcome.unlink # "none" => (Returned /\ success)

C2_Witness ==
    /\ Returned
    /\ outcome.unlink = "fail"
    /\ original_gdoc_path \in fs

RoleRank(role) == IF role = "video" THEN 1 ELSE IF role = "transcript" THEN 2 ELSE 3

\* C3: the moves are attempted in the order video, transcript, chat; a failed
\* move does not stop the later ones; when the video move fails and the chat
\* move succeeds the result is failure, the chat file is in the destination
\* and the video file is still where the move was to take it from.
C3_MovesInOrderAndIndependent ==
    /\ \A i, j \in DOMAIN Moves : i < j => RoleRank(Moves[i].role) < RoleRank(Moves[j].role)
    /\ Returned => AllPresentAttempted
    /\ (Returned /\ MoveFailed("video") /\ MoveOk("chat")) =>
           /\ ~success
           /\ self.chat_path \in date_dir
           /\ self.chat_path \notin fs
           /\ self.video_path \in fs

C3_Witness ==
    /\ Returned
    /\ MoveFailed("video")
    /\ MoveOk("chat")
    /\ self.video_path \notin date_dir

\* C4 as stated: after a successful conversion the transcript reference is
\* the .docx path, and whenever move_to returns success the original .gdoc
\* no longer exists.
C4_GdocGoneWheneverSuccess ==
    /\ outcome.convert = "ok" =>
           /\ self.transcript_path = WithSuffix(original_gdoc_path, DotDocx)
           /\ Suffix(self.transcript_path) = DotDocx
    /\ (Returned /\ success /\ original_gdoc_path # None) => original_gdoc_path \notin fs

\* C4 amended: after a successful conversion the transcript reference is the
\* .docx path, and whenever move_to returns success and the deletion of the
\* original .gdoc did not fail, the original .gdoc no longer exists.
C4_GdocGoneUnlessUnlinkFailed ==
    /\ outcome.convert = "ok" =>
           /\ self.transcript_path = WithSuffix(original_gdoc_path, DotDocx)
           /\ Suffix(self.transcript_path) = DotDocx
    /\ (Returned /\ success /\ original_gdoc_path # None /\ outcome.unlink # "fail")
           => original_gdoc_path \notin fs

C4_Witness ==
    /\ Returned /\ success
    /\ original_gdoc_path # None
    /\ outcome.unlink = "ok"
    /\ original_gdoc_path \notin fs
    /\ self.transcript_path \in date_dir

C6_EverySetHasVideo ==
    Scanned => \A i \in DOMAIN recording_sets :
                   /\ recording_sets[i].video_path # None
                   /\ recording_sets[i].video_path \in {listing[k] : k \in DOMAIN listing}

QualifiesAs(prefix, role) ==
    \E k \in DOMAIN listing : Contains(listing[k], prefix) /\ Role(listing[k]) = role

\* an identity with a transcript and a chat file but no video: no set for it
C6_Witness ==
    /\ pc = "select"
    /\ \E p \in Prefixes(listing) :
           /\ QualifiesAs(p, "transcript")
           /\ QualifiesAs(p, "chat")
           /\ ~QualifiesAs(p, "video")
           /\ \A i \in DOMAIN recording_sets : recording_sets[i].prefix # p

\* a comes strictly before b: the later date first, equal dates by identity,
\* an absent date after every date
ComesBefore(a, b) ==
    IF a.date # None /\ b.date # None
    THEN StrLess(b.date, a.date) \/ (a.date = b.date /\ StrLess(a.prefix, b.prefix))
    ELSE IF a.date # None THEN TRUE
    ELSE IF b.date # None THEN FALSE
    ELSE StrLess(a.prefix, b.prefix)

\* C7: the list scan returns is strictly ordered: later timestamp first, equal
\* timestamps by ascending identity, sets without a timestamp last.
C7_ScanOrdered ==
    Scanned => \A i, j \in DOMAIN recording_sets :
                   i < j => ComesBefore(recording_sets[i], recording_sets[j])

C7_Witness ==
    /\ pc = "select"
    /\ \E i, j, k \in DOMAIN recording_sets :
           /\ i < j /\ j < k
           /\ recording_sets[i].date # None
           /\ recording_sets[i].date = recording_sets[j].date
           /\ recording_sets[k].date = None
           /\ StrLess(recording_sets[k].prefix, recording_sets[j].prefix)

C9_ScanIndependentOfListingOrder ==
    pc = "select" =>
        \A files \in Orderings({listing[k] : k \in DOMAIN listing}) :
            \A order \in Orderings(Prefixes(files)) :
                Scan(files, order) = recording_sets

\* C10: a failed rename leaves the video reference as scan set it, a failed
\* conversion leaves the transcript reference at the .gdoc path, and in
\* either case the other transform step and every move are still attempted.
C10_TransformStepsIsolated ==
    InMoveTo =>
        /\ outcome.rename = "fail" => self.video_path = Selected.video_path
        /\ outcome.convert = "fail" =>
               /\ self.transcript_path = Selected.transcript_path
               /\ self.transcript_path = original_gdoc_path
               /\ Lower(Suffix(self.transcript_path)) = DotGdoc
        /\ (Returned /\ (outcome.rename = "fail" \/ outcome.convert = "fail")) =>
               /\ Lower(Suffix(Selected.video_path)) # DotMp4 => outcome.rename # "none"
               /\ (/\ Selected.transcript_path # None
                   /\ Lower(Suffix(Selected.transcript_path)) = DotGdoc)
                      => outcome.convert # "none"
               /\ AllPresentAttempted

C10_Witness ==
    /\ Returned
    /\ outcome.rename = "fail"
    /\ outcome.convert = "fail"
    /\ Len(Moves) = 3

====
